---- MODULE Spec2Model ----
(***************************************************************************)
(* Divination-Tools: RUNES.py, KABBALAH3.py and ANTHRO_ORACLE.py as one    *)
(* state machine.  A run of one of the three programs (or a direct call of *)
(* one of their reading functions) is in progress at any time; the pools,  *)
(* the clock and the availability of hashlib.pbkdf2_hmac are the process   *)
(* environment.                                                            *)
(*                                                                         *)
(* Digests are byte sequences of the real length (32).  SHA-256, PBKDF2    *)
(* and HMAC cannot be computed here: each is a fixed, deterministic mixing *)
(* function of its inputs whose bytes range over 0..ByteSpread-1, so that  *)
(* token collisions and shared prefixes occur at model scale.  Everything  *)
(* the programs do WITH a digest (big-endian integer mod n, first byte's   *)
(* low bit, hex prefix, byte at an offset) is computed as the code does.   *)
(***************************************************************************)
EXTENDS Integers, Sequences, FiniteSets, TLC

\* ------------------------------------------------------------------ bounds
NumQueries == 2      \* queries are 0..NumQueries; 0 is the empty string
MaxTime    == 1      \* the clock (seconds) runs over 0..MaxTime
MaxCount   == 25     \* draw counts passed to the reading functions: -1..MaxCount
ByteSpread == 2      \* distinct values of a digest byte in the model
MaxSize    == 6      \* ANTHRO --size runs over 1..MaxSize
MaxPos     == 32     \* build_pool's perturbed position is followed up to MaxPos
PrefixTokens == 5    \* typed prefixes are taken from the first PrefixTokens tokens
Slack      == 2      \* the "small slack" of the retry budget

\* ------------------------------------------------------- program constants
DERIVED_KEY_LENGTH == 32
TOKEN_HEX_LEN == 8
NUM_PATHS == 22

\* --------------------------------------------------------------- the pools
RuneTable ==
  << [name |-> "Fehu", reversible |-> TRUE],
     [name |-> "Uruz", reversible |-> TRUE],
     [name |-> "Thurisaz", reversible |-> TRUE],
     [name |-> "Ansuz", reversible |-> TRUE],
     [name |-> "Raido", reversible |-> TRUE],
     [name |-> "Kenaz", reversible |-> TRUE],
     [name |-> "Gebo", reversible |-> FALSE],
     [name |-> "Wunjo", reversible |-> TRUE],
     [name |-> "Hagalaz", reversible |-> FALSE],
     [name |-> "Nauthiz", reversible |-> TRUE],
     [name |-> "Isa", reversible |-> FALSE],
     [name |-> "Jera", reversible |-> FALSE],
     [name |-> "Eihwaz", reversible |-> FALSE],
     [name |-> "Perthro", reversible |-> TRUE],
     [name |-> "Algiz", reversible |-> TRUE],
     [name |-> "Sowilo", reversible |-> FALSE],
     [name |-> "Tiwaz", reversible |-> TRUE],
     [name |-> "Berkano", reversible |-> TRUE],
     [name |-> "Ehwaz", reversible |-> TRUE],
     [name |-> "Mannaz", reversible |-> TRUE],
     [name |-> "Laguz", reversible |-> TRUE],
     [name |-> "Ingwaz", reversible |-> FALSE],
     [name |-> "Dagaz", reversible |-> FALSE],
     [name |-> "Othala", reversible |-> TRUE] >>

SephirotTable ==
  << "Keter", "Chokmah", "Binah", "Chesed", "Gevurah",
     "Tiferet", "Netzach", "Hod", "Yesod", "Malkuth" >>

PathTable ==
  << "Aleph", "Beth", "Gimel", "Daleth", "Heh", "Vav", "Zayin", "Cheth",
     "Teth", "Yod", "Kaph", "Lamed", "Mem", "Nun", "Samekh", "Ayin", "Peh",
     "Tzaddi", "Qoph", "Resh", "Shin", "Tav" >>

states == << "Normal", "Deficient", "Excessive" >>

\* ------------------------------------------------------------------- state
VARIABLES
  RUNE_DATABASE,      \* RUNES.py's pool (a module-level list)
  sephirot_names,     \* KABBALAH3.py's pool of sephirot
  paths,              \* KABBALAH3.py's pool of paths
  pbkdf2_available,   \* whether hashlib.pbkdf2_hmac works in this process
  save_file,          \* the contents of the file that RUNES.py --save names
  now,                \* the last reading of datetime.now(timezone.utc), in seconds
  prog,               \* the operation of the current run
  pc,                 \* its position
  args,               \* its inputs
  result,             \* what it returned or how it failed
  calls,              \* hash calls made by the current run
  prev,               \* the run before, when the current one repeats it
  master_key,         \* ANTHRO build_pool: the derived master key
  order,              \* ANTHRO build_pool: the shuffled positions
  deck,               \* ANTHRO: the pool, token -> Totem, in insertion order
  loop_i,             \* ANTHRO build_pool: index i of the for loop
  pos,                \* ANTHRO build_pool: the position being tried
  totem,              \* ANTHRO build_pool: the totem being tried
  retries,            \* ANTHRO build_pool: passes of the while loop for this i
  choices,            \* ANTHRO run_interactive: the prefixes read so far
  tokens,             \* ANTHRO run_interactive: tokens not yet picked
  picks               \* ANTHRO run_interactive: the totems picked

anthro == << master_key, order, deck, loop_i, pos, totem, retries, choices, tokens, picks >>

vars == << RUNE_DATABASE, sephirot_names, paths, pbkdf2_available, save_file, now,
           prog, pc, args, result, calls, prev, anthro >>

pools == << RUNE_DATABASE, sephirot_names, paths >>

env == << pools, pbkdf2_available, save_file >>

\* -------------------------------------------------------- sequence helpers
Range(s) == { s[k] : k \in 1..Len(s) }

\* list.pop(index) with a 0-based index: the list that is left
PopRestKeepsItem(s, index) == s

\* removal that fills the hole with the last item
PopRestSwap(s, index) ==
  IF index + 1 = Len(s) THEN SubSeq(s, 1, Len(s) - 1)
  ELSE SubSeq([s EXCEPT ![index + 1] = s[Len(s)]], 1, Len(s) - 1)

PopRest(s, index) == SubSeq(s, 1, index) \o SubSeq(s, index + 2, Len(s))

\* list.index(x) + 1 in a list without duplicates (0 when absent)
IndexOf(s, x) == IF x \in Range(s) THEN CHOOSE k \in 1..Len(s) : s[k] = x ELSE 0

\* A list object made from a pool.  list(pool) and pool.copy() make a new
\* object with the same items; a plain assignment would name the pool itself.
list_alias(pool) == [obj |-> "pool", items |-> pool]

list_copy(pool) == [obj |-> "new", items |-> pool]

\* The pool after pops on the list object lst have left it holding left:
\* they reach the pool only when lst is the pool itself.
PoolAfter(pool, lst, left) == IF lst.obj = "pool" THEN left ELSE pool

\* ------------------------------------------------------------ the digests
\* One byte of a modelled digest.  prim separates the primitives
\* (pbkdf2_hmac, the iterated-sha256 fallback, hmac); data and salt are the
\* codes of the two inputs.
MixByte(prim, data, salt, j) ==
  LET x == (prim * 31337 + data * 1103 + salt * 12345 + j * 7919) % 32749
      y == (x * x + x) % 32749
  IN  (y \div 5) % ByteSpread

MixDigest(prim, data, salt) ==
  [ j \in 1..DERIVED_KEY_LENGTH |-> MixByte(prim, data, salt, j) ]

\* hashlib.sha256(text).digest() of a query and (RUNES) a timestamp: distinct
\* texts have distinct digests; the digest is carried as its code.
Sha256Code(query, stamp) == query * (MaxTime + 3) + stamp + 1

\* The code of a salt / label string such as "rune-orient-Fehu-3".
SaltCode(domain, name, i) ==
  LET d == CASE domain = "rune-auth" -> 1
             [] domain = "rune-select" -> 2
             [] domain = "rune-orient" -> 3
             [] domain = "sephirah-name" -> 4
             [] domain = "sephirah-state" -> 5
             [] domain = "path" -> 6
             [] domain = "path-count-salt" -> 7
             [] domain = "anthro-oracle-v1" -> 8
             [] domain = "token" -> 9
  IN  d * 1000 + name * 32 + i

\* int.from_bytes(digest, 'big') % n, by Horner's rule (n > 0)
RECURSIVE IntFromBytesMod(_, _, _)
IntFromBytesMod(digest, n, upto) ==
  IF upto = 0 THEN 0
  ELSE (IntFromBytesMod(digest, n, upto - 1) * 256 + digest[upto]) % n

IntMod(digest, n) == IntFromBytesMod(digest, n, Len(digest))

\* bytes.hex(): two hex digits per byte, as a sequence of digit values
Hex(digest) ==
  [ k \in 1..(2 * Len(digest)) |->
      IF k % 2 = 1 THEN digest[(k + 1) \div 2] \div 16
                   ELSE digest[k \div 2] % 16 ]

\* hex_digest[:8]
HexPrefix(digest) == SubSeq(Hex(digest), 1, TOKEN_HEX_LEN)

\* ================================================================ RUNES.py
\* secure_hash(data, salt): hashlib.pbkdf2_hmac with no fallback; the caller
\* sees the exception when the primitive is unavailable.
secure_hash(data, salt) == MixDigest(0, data, salt)

NameIndex(table, name) ==
  IF \E k \in 1..Len(table) : table[k].name = name
  THEN CHOOSE k \in 1..Len(table) : table[k].name = name
  ELSE 0

\* is_reversed of a draw: the first byte's lowest bit, overridden for a rune
\* that is not reversible.
OrientationBitOnly(selected_rune, orientation_hash) ==
  (orientation_hash[1] % 2) = 1

Orientation(selected_rune, orientation_hash) ==
  LET is_reversed == (orientation_hash[1] % 2) = 1
  IN  IF ~selected_rune.reversible THEN FALSE ELSE is_reversed

\* cast's range check on num_runes
ValidCountFromZero(num_runes, n) == 0 <= num_runes /\ num_runes <= n

ValidCount(num_runes, n) == 1 <= num_runes /\ num_runes <= n

\* The body of cast's for loop, draws i .. num_runes-1.
RECURSIVE CastDraws(_, _, _, _)
CastDraws(base_seed, available_runes, i, num_runes) ==
  IF i >= num_runes THEN << >>
  ELSE
    LET selection_hash == secure_hash(base_seed, SaltCode("rune-select", 0, i))
        selection_index == IntMod(selection_hash, Len(available_runes))
        selected_rune == available_runes[selection_index + 1]
        orientation_hash ==
          secure_hash(base_seed,
                      SaltCode("rune-orient", NameIndex(RuneTable, selected_rune.name), i))
        is_reversed == Orientation(selected_rune, orientation_hash)
    IN  << [rune_info |-> selected_rune, is_reversed |-> is_reversed] >>
        \o CastDraws(base_seed, PopRest(available_runes, selection_index), i + 1, num_runes)

\* available_runes after the passes i .. num_runes-1 of cast's for loop
RECURSIVE CastLeft(_, _, _, _)
CastLeft(base_seed, available_runes, i, num_runes) ==
  IF i >= num_runes THEN available_runes
  ELSE
    LET selection_hash == secure_hash(base_seed, SaltCode("rune-select", 0, i))
        selection_index == IntMod(selection_hash, Len(available_runes))
    IN  CastLeft(base_seed, PopRest(available_runes, selection_index), i + 1, num_runes)

\* RUNE_DATABASE after RuneCaster.cast(query, num_runes): the loop pops from
\* available_runes = list(RUNE_DATABASE)
cast_pool(db, query, stamp, num_runes, pbkdf2_ok) ==
  IF ~ValidCount(num_runes, Len(db)) \/ ~pbkdf2_ok THEN db
  ELSE LET available_runes == list_copy(db)
       IN  PoolAfter(db, available_runes,
                     CastLeft(Sha256Code(query, stamp), available_runes.items, 0, num_runes))

\* RuneCaster.cast(query, num_runes) called at time stamp with pool db.
cast(db, query, stamp, num_runes, pbkdf2_ok) ==
  IF ~ValidCount(num_runes, Len(db))
  THEN [outcome |-> "ValueError", query |-> query, timestamp |-> stamp,
        authentication |-> << >>, drawn_runes |-> << >>,
        pbkdf2 |-> 0, fast |-> 0]
  ELSE IF ~pbkdf2_ok
  THEN [outcome |-> "DerivationError", query |-> query, timestamp |-> stamp,
        authentication |-> << >>, drawn_runes |-> << >>,
        pbkdf2 |-> 1, fast |-> 1]
  ELSE
    LET base_seed == Sha256Code(query, stamp)
        auth_hash == secure_hash(base_seed, SaltCode("rune-auth", 0, 0))
    IN  [outcome |-> "ok", query |-> query, timestamp |-> stamp,
         authentication |-> HexPrefix(auth_hash),
         drawn_runes |-> CastDraws(base_seed, db, 0, num_runes),
         pbkdf2 |-> 1 + 2 * num_runes, fast |-> 1]

\* ============================================================ KABBALAH3.py
\* ProtectiveHasher.derive_protected_bytes: pbkdf2_hmac, or on any exception
\* the iterated-sha256 fallback (another function of the same inputs).
derive_protected_bytes(base, salt, pbkdf2_ok) ==
  IF pbkdf2_ok THEN MixDigest(0, base, salt) ELSE MixDigest(1, base, salt)

\* hash_question_for_int(question, salt) % n
hash_question_for_int_mod(question, salt, n, pbkdf2_ok) ==
  IntMod(derive_protected_bytes(Sha256Code(question, -1), salt, pbkdf2_ok), n)

\* The selection loop of get_sephirot_reading, draws i .. count-1.
RECURSIVE SephirotDraws(_, _, _, _, _)
SephirotDraws(question, available_sephirot, i, count, pbkdf2_ok) ==
  IF i >= count THEN << >>
  ELSE
    LET index == hash_question_for_int_mod(question, SaltCode("sephirah-name", 0, i),
                                           Len(available_sephirot), pbkdf2_ok)
    IN  << available_sephirot[index + 1] >>
        \o SephirotDraws(question, PopRest(available_sephirot, index), i + 1, count,
                         pbkdf2_ok)

\* The state of the i-th (0-based) chosen sephirah.
SephirahState(question, name, i, pbkdf2_ok) ==
  LET state_index ==
        hash_question_for_int_mod(question,
          SaltCode("sephirah-state", IndexOf(SephirotTable, name), i),
          Len(states), pbkdf2_ok)
  IN  states[state_index + 1]

\* chosen_names of get_sephirot_reading: the pool itself for count >= 10,
\* else count names drawn from a copy of it
ChosenNamesAlwaysDrawn(names, question, count, pbkdf2_ok) ==
  SephirotDraws(question, names, 0, IF count >= 10 THEN 10 ELSE count, pbkdf2_ok)

ChosenNames(names, question, count, pbkdf2_ok) ==
  IF count >= 10 THEN names
  ELSE SephirotDraws(question, names, 0, count, pbkdf2_ok)

\* get_sephirot_reading(question, count) with pool names
get_sephirot_reading(names, question, count, pbkdf2_ok) ==
  LET chosen_names == ChosenNames(names, question, count, pbkdf2_ok)
  IN  [ k \in 1..Len(chosen_names) |->
          << chosen_names[k], SephirahState(question, chosen_names[k], k - 1, pbkdf2_ok) >> ]

\* hash_question_for_int calls made by get_sephirot_reading
SephirotCalls(count) ==
  IF count >= 10 THEN 10 ELSE IF count <= 0 THEN 0 ELSE 2 * count

\* The loop of get_paths_reading, draws i .. count-1; the modulo by
\* len(available_paths) raises ZeroDivisionError on an empty list.
RECURSIVE PathDraws(_, _, _, _, _)
PathDraws(question, available_paths, i, count, pbkdf2_ok) ==
  IF i >= count THEN [outcome |-> "ok", chosen |-> << >>, calls |-> 0]
  ELSE IF Len(available_paths) = 0
  THEN [outcome |-> "ZeroDivisionError", chosen |-> << >>, calls |-> 1]
  ELSE
    LET index == hash_question_for_int_mod(question, SaltCode("path", 0, i),
                                           Len(available_paths), pbkdf2_ok)
        rest == PathDraws(question, PopRest(available_paths, index), i + 1, count,
                          pbkdf2_ok)
    IN  [outcome |-> rest.outcome,
         chosen |-> IF rest.outcome = "ok"
                    THEN << available_paths[index + 1] >> \o rest.chosen
                    ELSE << >>,
         calls |-> rest.calls + 1]

\* the paths returned with the last one drawn first
get_paths_reading_reversed(pool, question, count, pbkdf2_ok) ==
  LET r == PathDraws(question, pool, 0, count, pbkdf2_ok)
  IN  [r EXCEPT !.chosen = [ k \in 1..Len(r.chosen) |-> r.chosen[Len(r.chosen) + 1 - k] ]]

\* get_paths_reading(question, count) with pool pool
get_paths_reading(pool, question, count, pbkdf2_ok) ==
  IF count = 0 THEN [outcome |-> "ok", chosen |-> << >>, calls |-> 0]
  ELSE PathDraws(question, pool, 0, count, pbkdf2_ok)

\* The list that the selection loop of get_sephirot_reading (salt
\* "sephirah-name") or of get_paths_reading (salt "path") pops from, after
\* its passes i .. count-1; the loop ends at an empty list (ZeroDivisionError).
RECURSIVE KLeft(_, _, _, _, _, _)
KLeft(question, domain, available, i, count, pbkdf2_ok) ==
  IF i >= count \/ Len(available) = 0 THEN available
  ELSE
    LET index == hash_question_for_int_mod(question, SaltCode(domain, 0, i),
                                           Len(available), pbkdf2_ok)
    IN  KLeft(question, domain, PopRest(available, index), i + 1, count, pbkdf2_ok)

\* sephirot_names after get_sephirot_reading(question, count): for count >= 10
\* chosen_names is the pool itself and is only read; else the loop pops from
\* available_sephirot = sephirot_names.copy()
sephirot_pool(names, question, count, pbkdf2_ok) ==
  IF count >= 10 THEN names
  ELSE LET available_sephirot == list_copy(names)
       IN  PoolAfter(names, available_sephirot,
                     KLeft(question, "sephirah-name", available_sephirot.items, 0, count,
                           pbkdf2_ok))

\* paths after get_paths_reading(question, count): the loop pops from
\* available_paths = paths.copy()
paths_pool(pool, question, count, pbkdf2_ok) ==
  IF count = 0 THEN pool
  ELSE LET available_paths == list_copy(pool)
       IN  PoolAfter(pool, available_paths,
                     KLeft(question, "path", available_paths.items, 0, count, pbkdf2_ok))

\* ========================================================= ANTHRO_ORACLE.py
SPECIES ==
  << "Wolf", "Fox", "Dog", "Cat", "Lion", "Tiger", "Leopard", "Cheetah",
     "Hyena", "Bear", "Otter", "Raccoon", "Red Panda", "Husky", "Coyote",
     "Jackal", "Rabbit", "Hare", "Deer", "Stag", "Moose", "Bison", "Horse",
     "Goat", "Sheep", "Boar", "Bat",
     "Eagle", "Raven", "Owl", "Hawk", "Crow", "Swan", "Phoenix",
     "Dragon", "Lizard", "Gecko", "Snake", "Cobra", "Crocodile",
     "Shark", "Dolphin", "Orca", "Seal" >>

ROLES ==
  << "Guardian", "Healer", "Seer", "Warrior", "Trickster", "Bard",
     "Scholar", "Builder", "Navigator", "Shaman", "Alchemist",
     "Diplomat", "Scout", "Hermit", "Caretaker" >>

ELEMENTS ==
  << "Fire", "Water", "Earth", "Air", "Storm", "Wood", "Metal", "Light",
     "Shadow", "Aether" >>

VIRTUES ==
  << "Courage", "Devotion", "Compassion", "Patience", "Integrity",
     "Curiosity", "Discipline", "Joy", "Humility", "Grace",
     "Perseverance", "Wisdom", "Playfulness", "Ingenuity", "Justice" >>

SHADOWS ==
  << "Fear", "Control", "Apathy", "Doubt", "Pride",
     "Impatience", "Isolation", "Resentment", "Greed", "Confusion",
     "Rigidity", "Escapism", "Despair", "Deceit", "Chaos" >>

GIFTS ==
  << "Moonstep", "Sunheart", "Scent of Truth", "Starcall", "Packbond",
     "Mirrorshine", "Driftwood", "Pawprint Path", "Thunderpaw", "Sea-breath",
     "Keenwhisker", "Bloomcloak", "Stonebed", "Kindlefang", "Skyweave" >>

ASPECTS == << "Upright", "Shadowed" >>

\* ProtectiveHasher.derive_master: pbkdf2_hmac, or on any exception the
\* iterated-sha256 fallback.
derive_master(base_bytes, salt, pbkdf2_ok) ==
  IF pbkdf2_ok THEN MixDigest(0, base_bytes, salt) ELSE MixDigest(1, base_bytes, salt)

\* ProtectiveHasher.hmac_token(master_key, token_salt); the key enters by
\* its value
hmac_token(key, token_salt) ==
  MixDigest(2, IntFromBytesMod(key, 32749, Len(key)), token_salt)

\* AnthroOracle._choice_from_digest
choice_from_digest(digest, pool, offset) ==
  LET idx == digest[(offset % Len(digest)) + 1]
  IN  pool[(idx % Len(pool)) + 1]

\* AnthroOracle._build_totem(master_key, idx)
build_totem(key, idx, reversals) ==
  LET digest == hmac_token(key, SaltCode("token", 0, idx))
  IN  [species |-> choice_from_digest(digest, SPECIES, 0),
       role    |-> choice_from_digest(digest, ROLES, 5),
       element |-> choice_from_digest(digest, ELEMENTS, 9),
       virtue  |-> choice_from_digest(digest, VIRTUES, 13),
       shadow  |-> choice_from_digest(digest, SHADOWS, 17),
       gift    |-> choice_from_digest(digest, GIFTS, 23),
       aspect  |-> IF reversals THEN ASPECTS[(digest[Len(digest)] % 2) + 1]
                   ELSE "Upright",
       digest  |-> Hex(digest),
       token   |-> HexPrefix(digest)]

\* random.Random(base_seed): the k-th draw below n of the generator seeded
\* with base_seed
RandBelow(base_seed, k, n) == IntMod(MixDigest(3, base_seed, k), n)

Swap(x, a, b) == [x EXCEPT ![a] = x[b], ![b] = x[a]]

\* rng.shuffle(order): for k = len-1 down to 1, swap x[k] and x[randbelow(k+1)]
\* (0-based)
RECURSIVE ShuffleFrom(_, _, _)
ShuffleFrom(base_seed, x, k) ==
  IF k < 1 THEN x
  ELSE ShuffleFrom(base_seed, Swap(x, k + 1, RandBelow(base_seed, k, k + 1) + 1), k - 1)

\* the generator seeded anew in every run instead of from base_seed
shuffleUnseeded(base_seed, count) ==
  ShuffleFrom(base_seed + (IF prev.prog = "none" THEN 0 ELSE 1),
              [ k \in 1..count |-> k - 1 ], count - 1)

shuffle(base_seed, count) ==
  ShuffleFrom(base_seed, [ k \in 1..count |-> k - 1 ], count - 1)

\* list(deck.keys())
Keys(d) == [ k \in 1..Len(d) |-> d[k].token ]

\* a membership test that never finds the token
InDeckNever(tok, d) == FALSE

\* tok in deck
InDeck(tok, d) == tok \in Range(Keys(d))

\* deck[t.token] = t: a new key is added last, a key that is there keeps its
\* place and gets the new value
Store(d, t) ==
  IF t.token \in Range(Keys(d))
  THEN [d EXCEPT ![CHOOSE k \in 1..Len(d) : d[k].token = t.token] = t]
  ELSE Append(d, t)

\* t.startswith(pref)
StartsWith(t, pref) == Len(pref) <= Len(t) /\ SubSeq(t, 1, Len(pref)) = pref

\* [t for t in tokens if t.startswith(pref)]
RECURSIVE Matches(_, _)
Matches(toks, pref) ==
  IF toks = << >> THEN << >>
  ELSE (IF StartsWith(Head(toks), pref) THEN << Head(toks) >> ELSE << >>)
       \o Matches(Tail(toks), pref)

\* tokens.remove(tok): the list without the first occurrence of tok
RemoveNothing(toks, tok) == toks

Remove(toks, tok) == PopRest(toks, IndexOf(toks, tok) - 1)

\* the first totem of the deck, whatever the token
LookupFirst(d, tok) == d[1]

\* deck[tok]
Lookup(d, tok) == d[IndexOf(Keys(d), tok)]

\* =================================================================== runs
Queries == 0..NumQueries
Counts == (-1)..MaxCount

\* datetime.now(timezone.utc): a reading of the clock, never before the last
Clock == now..MaxTime

NoArgs == [query |-> 0, count |-> 0]
NoRun == [prog |-> "none"]
NoCalls == [pbkdf2 |-> 0, fast |-> 0]

Reading(r) ==
  [outcome |-> r.outcome, query |-> r.query, timestamp |-> r.timestamp,
   authentication |-> r.authentication, drawn_runes |-> r.drawn_runes]

\* A direct call of RuneCaster.cast(query, num_runes).
CastCall ==
  /\ prog \in { "none", "caller" }
  /\ \E query \in Queries, num_runes \in Counts, clock \in Clock :
       LET r == cast(RUNE_DATABASE, query, clock, num_runes, pbkdf2_available)
       IN  /\ prog' = "cast"
           /\ pc' = "done"
           /\ args' = [query |-> query, count |-> num_runes]
           /\ now' = clock
           /\ result' = Reading(r)
           /\ calls' = [pbkdf2 |-> r.pbkdf2, fast |-> r.fast]
           /\ prev' = NoRun
           /\ RUNE_DATABASE' = cast_pool(RUNE_DATABASE, query, clock, num_runes,
                                         pbkdf2_available)
           /\ UNCHANGED << anthro, sephirot_names, paths, pbkdf2_available, save_file >>

\* A direct call of get_sephirot_reading(question, count).
SephirotCall ==
  /\ prog \in { "none", "caller" }
  /\ \E question \in Queries, count \in Counts :
       /\ prog' = "sephirot"
       /\ pc' = "done"
       /\ args' = [query |-> question, count |-> count]
       /\ result' = [outcome |-> "ok",
                     value |-> get_sephirot_reading(sephirot_names, question, count,
                                                    pbkdf2_available)]
       /\ calls' = [pbkdf2 |-> SephirotCalls(count), fast |-> SephirotCalls(count)]
       /\ prev' = NoRun
       /\ sephirot_names' = sephirot_pool(sephirot_names, question, count, pbkdf2_available)
       /\ UNCHANGED << anthro, RUNE_DATABASE, paths, pbkdf2_available, save_file, now >>

\* A direct call of get_paths_reading(question, count).
PathsCall ==
  /\ prog \in { "none", "caller" }
  /\ \E question \in Queries, count \in Counts :
       LET r == get_paths_reading(paths, question, count, pbkdf2_available)
       IN  /\ prog' = "paths"
           /\ pc' = "done"
           /\ args' = [query |-> question, count |-> count]
           /\ result' = [outcome |-> r.outcome, value |-> r.chosen]
           /\ calls' = [pbkdf2 |-> r.calls, fast |-> r.calls]
           /\ prev' = NoRun
           /\ paths' = paths_pool(paths, question, count, pbkdf2_available)
           /\ UNCHANGED << anthro, RUNE_DATABASE, sephirot_names, pbkdf2_available,
                           save_file, now >>

\* ---- RUNES.py main(), step by step
\* The contents of a file are a sequence of pieces of text: a serialized
\* reading, or the newline character.
NoData == [query |-> 0, timestamp |-> 0, authentication |-> << >>, drawn_runes |-> << >>]

NL == [fmt |-> "newline", data |-> NoData]

\* asdict(reading)
asdict(reading) ==
  [query |-> reading.query, timestamp |-> reading.timestamp,
   authentication |-> reading.authentication, drawn_runes |-> reading.drawn_runes]

\* json.dumps(save_data, ensure_ascii=False, cls=CustomEncoder): one line of text
dumps(save_data) == [fmt |-> "compact", data |-> save_data]

\* json.dump(save_data, f, ensure_ascii=False, indent=2, cls=CustomEncoder):
\* what it writes when it completes
dump(save_data) == [fmt |-> "indent2", data |-> save_data]

\* what reached the file of a text whose writing did not complete
Cut(text) == [fmt |-> "cut", data |-> text.data]

\* What the path of --save holds before the first run: nothing, one line, or
\* a line and text after it that no newline ends.
OldText == dumps(NoData)

InitialFiles == { << >>, << OldText, NL >>, << OldText, NL, OldText >> }

\* Path(args.save).suffix of the paths tried
SavePaths == { ".jsonl", ".JSONL", ".json", ".txt" }

\* str.lower() of a suffix
Lower(suffix) == IF suffix = ".JSONL" THEN ".jsonl" ELSE suffix

\* the mode of open(save_path, ...): 'w' whatever the suffix
OpenModeAlwaysW(suffix) == "w"

\* the mode of open(save_path, ...)
OpenMode(suffix) == IF Lower(suffix) = ".jsonl" THEN "a" ELSE "w"

\* what is written to f in each mode
Written(mode, save_data) ==
  IF mode = "a" THEN << dumps(save_data), NL >> ELSE << dump(save_data) >>

RRunning == [outcome |-> "running", query |-> 0, timestamp |-> 0,
             authentication |-> << >>, drawn_runes |-> << >>]

\* parse_args: -q is required, -n is one of 1, 3, 5 (anything else is a
\* usage error), --save is optional.
RStart ==
  /\ prog = "none"
  /\ \E query \in Queries, number \in { 1, 2, 3, 5 }, save \in SavePaths \cup { "none" } :
       /\ args' = [query |-> query, count |-> number, save |-> save, before |-> save_file]
       /\ IF number \in { 1, 3, 5 }
          THEN pc' = "cast" /\ result' = RRunning
          ELSE pc' = "done" /\ result' = [RRunning EXCEPT !.outcome = "UsageError"]
  /\ prog' = "runes"
  /\ calls' = NoCalls
  /\ prev' = NoRun
  /\ UNCHANGED << anthro, env, now >>

\* reading = caster.cast(args.query, args.number) and display_reading(reading);
\* an exception of cast ends the run in the handler of __main__.
RCast ==
  /\ prog = "runes" /\ pc = "cast"
  /\ \E clock \in Clock :
       LET r == cast(RUNE_DATABASE, args.query, clock, args.count, pbkdf2_available)
       IN  /\ now' = clock
           /\ calls' = [pbkdf2 |-> r.pbkdf2, fast |-> r.fast]
           /\ IF r.outcome = "ok"
              THEN /\ result' = Reading(r)
                   /\ pc' = IF args.save = "none" THEN "done" ELSE "open"
              ELSE /\ result' = [Reading(r) EXCEPT !.outcome = "UnexpectedError"]
                   /\ pc' = "done"
           /\ RUNE_DATABASE' = cast_pool(RUNE_DATABASE, args.query, clock, args.count,
                                         pbkdf2_available)
  /\ UNCHANGED << anthro, sephirot_names, paths, pbkdf2_available, save_file, prog, args,
                  prev >>

\* KeyboardInterrupt while cast is running: "Divination cancelled."
RInterrupt ==
  /\ prog = "runes" /\ pc = "cast"
  /\ result' = [result EXCEPT !.outcome = "Cancelled"]
  /\ pc' = "done"
  /\ UNCHANGED << anthro, env, now, prog, args, calls, prev >>

\* open(save_path, 'a' or 'w', encoding='utf-8'): 'w' truncates the file as
\* it opens it.  open may raise OSError, which the except clause of the save
\* logs, or be interrupted.
ROpen ==
  /\ prog = "runes" /\ pc = "open"
  /\ \E fault \in { "none", "OSError", "KeyboardInterrupt" } :
       IF fault = "none"
       THEN /\ save_file' = IF OpenMode(args.save) = "a" THEN save_file ELSE << >>
            /\ pc' = "write"
            /\ result' = result
       ELSE /\ save_file' = save_file
            /\ pc' = "done"
            /\ result' = [result EXCEPT !.outcome =
                             IF fault = "OSError" THEN "SaveFailed" ELSE "Cancelled"]
  /\ UNCHANGED << anthro, pools, pbkdf2_available, now, prog, args, calls, prev >>

\* f.write(json.dumps(...) + '\n') or json.dump(..., f, indent=2), and the
\* close of f.  A write that raises OSError or is interrupted leaves in the
\* file what had been written until then: nothing, or a part of the text.
RWrite ==
  /\ prog = "runes" /\ pc = "write"
  /\ \E fault \in { "none", "OSError", "KeyboardInterrupt" }, part \in BOOLEAN :
       LET text == Written(OpenMode(args.save), asdict(result))
       IN  IF fault = "none"
           THEN /\ ~part
                /\ save_file' = save_file \o text
                /\ result' = result
           ELSE /\ save_file' = save_file \o (IF part THEN << Cut(text[1]) >> ELSE << >>)
                /\ result' = [result EXCEPT !.outcome =
                                 IF fault = "OSError" THEN "SaveFailed" ELSE "Cancelled"]
  /\ pc' = "done"
  /\ UNCHANGED << anthro, pools, pbkdf2_available, now, prog, args, calls, prev >>

\* ---- KABBALAH3.py main(), step by step
ReadingTypes == { "1", "3", "10", "4" }

KRunning == [outcome |-> "running", sephirot |-> << >>, path_count |-> -1,
             paths |-> << >>]

\* parse_args: -q is required (any string, the empty one too), -r is one of
\* the choices, -p is an optional integer.
KStart ==
  /\ prog = "none"
  /\ \E query \in Queries, rtype \in ReadingTypes \cup { "7" },
        p_given \in BOOLEAN, p \in Counts :
       /\ (~p_given) => p = 0
       /\ prog' = "kabbalah"
       /\ args' = [query |-> query, rtype |-> rtype, p_given |-> p_given, p |-> p]
       /\ IF rtype \in ReadingTypes
          THEN pc' = "sephirot" /\ result' = KRunning
          ELSE pc' = "done" /\ result' = [KRunning EXCEPT !.outcome = "UsageError"]
       /\ calls' = NoCalls
       /\ prev' = NoRun
       /\ UNCHANGED << anthro, env, now >>

\* "Determine sephirot count": the sephirot reading is computed first.
KSephirot ==
  /\ prog = "kabbalah" /\ pc = "sephirot"
  /\ LET sephirot_count == IF args.rtype = "1" THEN 1
                           ELSE IF args.rtype = "3" THEN 3 ELSE 10
     IN  /\ result' = [result EXCEPT !.sephirot =
                          get_sephirot_reading(sephirot_names, args.query,
                                               sephirot_count, pbkdf2_available)]
         /\ calls' = [pbkdf2 |-> calls.pbkdf2 + SephirotCalls(sephirot_count),
                      fast |-> calls.fast + SephirotCalls(sephirot_count)]
         /\ sephirot_names' = sephirot_pool(sephirot_names, args.query, sephirot_count,
                                            pbkdf2_available)
  /\ pc' = "pathcount"
  /\ UNCHANGED << anthro, RUNE_DATABASE, paths, pbkdf2_available, save_file, now, prog,
                  args, prev >>

\* "Determine path count": the --paths check, or the count derived from
\* the query.
KPathCount ==
  /\ prog = "kabbalah" /\ pc = "pathcount"
  /\ IF args.p_given
     THEN IF ~(0 <= args.p /\ args.p <= NUM_PATHS)
          THEN /\ result' = [result EXCEPT !.outcome = "InvalidInput"]
               /\ pc' = "done"
               /\ calls' = calls
          ELSE /\ result' = [result EXCEPT !.path_count = args.p]
               /\ pc' = "paths"
               /\ calls' = calls
     ELSE /\ result' = [result EXCEPT !.path_count =
                          hash_question_for_int_mod(args.query,
                            SaltCode("path-count-salt", 0, 0), NUM_PATHS \div 2,
                            pbkdf2_available) + 1]
          /\ pc' = "paths"
          /\ calls' = [pbkdf2 |-> calls.pbkdf2 + 1, fast |-> calls.fast + 1]
  /\ UNCHANGED << anthro, env, now, prog, args, prev >>

\* get_paths_reading and the display of both readings.
KPaths ==
  /\ prog = "kabbalah" /\ pc = "paths"
  /\ LET r == get_paths_reading(paths, args.query, result.path_count, pbkdf2_available)
     IN  /\ result' = [result EXCEPT
                         !.outcome = IF r.outcome = "ok" THEN "ok" ELSE "UnexpectedError",
                         !.paths = r.chosen]
         /\ calls' = [pbkdf2 |-> calls.pbkdf2 + r.calls, fast |-> calls.fast + r.calls]
  /\ paths' = paths_pool(paths, args.query, result.path_count, pbkdf2_available)
  /\ pc' = "done"
  /\ UNCHANGED << anthro, RUNE_DATABASE, sephirot_names, pbkdf2_available, save_file, now,
                  prog, args, prev >>

\* ---- ANTHRO_ORACLE.py run_interactive(args), step by step
NumberArgs == { 1, 2, 3, 5 }

ARunning == [outcome |-> "running", num |-> 0, revealed |-> << >>]

NoTotem == [token |-> << >>]

AnthroReset ==
  /\ master_key' = << >>
  /\ order' = << >>
  /\ deck' = << >>
  /\ loop_i' = 0
  /\ pos' = 0
  /\ totem' = NoTotem
  /\ retries' = 0
  /\ choices' = << >>
  /\ tokens' = << >>
  /\ picks' = << >>

\* main(): parse_args (-n, -s, -r)
AStart ==
  /\ prog = "none"
  /\ \E number_given \in BOOLEAN, number \in NumberArgs, size \in 1..MaxSize,
        reversals \in BOOLEAN :
       /\ (~number_given) => number = 1
       /\ args' = [query |-> 0, number_given |-> number_given, number |-> number,
                   size |-> size, reversals |-> reversals]
  /\ prog' = "anthro"
  /\ pc' = "query"
  /\ result' = ARunning
  /\ calls' = NoCalls
  /\ prev' = NoRun
  /\ UNCHANGED << anthro, env, now >>

\* A direct call of AnthroOracle(reversals).build_pool(query, pool_size).
BuildPoolCall ==
  /\ prog = "none"
  /\ \E query \in Queries, size \in 1..MaxSize, reversals \in BOOLEAN :
       args' = [query |-> query, number_given |-> FALSE, number |-> 1,
                size |-> size, reversals |-> reversals]
  /\ prog' = "build_pool"
  /\ pc' = "build"
  /\ result' = ARunning
  /\ calls' = NoCalls
  /\ prev' = NoRun
  /\ UNCHANGED << anthro, env, now >>

\* The question is read and stripped; an empty one ends the run.
AQuery ==
  /\ prog = "anthro" /\ pc = "query"
  /\ \E query \in Queries :
       IF query = 0
       THEN /\ result' = [result EXCEPT !.outcome = "InvalidInput"]
            /\ pc' = "done"
            /\ args' = args
       ELSE /\ args' = [args EXCEPT !.query = query]
            /\ pc' = "number"
            /\ result' = result
  /\ UNCHANGED << anthro, env, now, prog, calls, prev >>

\* "Number of totems": --number is checked, or a number is asked for until it
\* is 1, 3 or 5.
ANumber ==
  /\ prog = "anthro" /\ pc = "number"
  /\ IF args.number_given
     THEN IF args.number \notin { 1, 3, 5 }
          THEN /\ result' = [result EXCEPT !.outcome = "InvalidInput"]
               /\ pc' = "done"
          ELSE /\ result' = [result EXCEPT !.num = args.number]
               /\ pc' = "build"
     ELSE \E typed \in NumberArgs :
            IF typed \in { 1, 3, 5 }
            THEN /\ result' = [result EXCEPT !.num = typed]
                 /\ pc' = "build"
            ELSE /\ result' = result
                 /\ pc' = pc
  /\ UNCHANGED << anthro, env, now, prog, args, calls, prev >>

\* build_pool up to its for loop: the seed, the master key, the shuffled
\* order, the empty deck.
ABuildBegin ==
  /\ prog \in { "anthro", "build_pool" } /\ pc = "build"
  /\ LET base_seed == Sha256Code(args.query, -1)
         count == args.size * (IF args.reversals THEN 2 ELSE 1)
     IN  /\ master_key' = derive_master(base_seed, SaltCode("anthro-oracle-v1", 0, 0),
                                        pbkdf2_available)
         /\ order' = shuffle(base_seed, count)
  /\ deck' = << >>
  /\ loop_i' = 0
  /\ calls' = [pbkdf2 |-> calls.pbkdf2 + 1, fast |-> calls.fast + 1]
  /\ pc' = "for"
  /\ UNCHANGED << env, now, prog, args, result, prev, pos, totem, retries, choices,
                  tokens, picks >>

\* One pass of "for i, pos in enumerate(order)": the first totem of this
\* position; after the last pass build_pool returns and the pool is printed.
AFor ==
  /\ prog \in { "anthro", "build_pool" } /\ pc = "for"
  /\ IF loop_i < Len(order)
     THEN /\ pos' = order[loop_i + 1]
          /\ totem' = build_totem(master_key, order[loop_i + 1], args.reversals)
          /\ retries' = 0
          /\ calls' = [calls EXCEPT !.fast = calls.fast + 1]
          /\ pc' = "while"
     ELSE /\ pc' = IF prog = "anthro" THEN "prompt" ELSE "done"
          /\ UNCHANGED << pos, totem, retries, calls >>
  /\ UNCHANGED << env, now, prog, args, result, prev, master_key, order, deck, loop_i,
                  choices, tokens, picks >>

\* "while totem.token in deck": the position is incremented and the totem
\* rebuilt.  Nothing in the code ends this loop but a token not in the deck.
ARetry ==
  /\ prog \in { "anthro", "build_pool" } /\ pc = "while"
  /\ InDeck(totem.token, deck)
  /\ pos < MaxPos
  /\ pos' = pos + 1
  /\ totem' = build_totem(master_key, pos + 1, args.reversals)
  /\ retries' = retries + 1
  /\ calls' = [calls EXCEPT !.fast = calls.fast + 1]
  /\ UNCHANGED << env, now, prog, pc, args, result, prev, master_key, order, deck,
                  loop_i, choices, tokens, picks >>

\* "deck[totem.token] = totem" with a token that is not in the deck
AInsert ==
  /\ prog \in { "anthro", "build_pool" } /\ pc = "while"
  /\ ~InDeck(totem.token, deck)
  /\ deck' = Store(deck, totem)
  /\ loop_i' = loop_i + 1
  /\ pc' = "for"
  /\ UNCHANGED << env, now, prog, args, result, calls, prev, master_key, order, pos,
                  totem, retries, choices, tokens, picks >>

\* The prefixes a user types: the tokens shown first in full, the 3-digit
\* prefixes of the first and the last of them, and a prefix that matches
\* nothing.
Prefixes(d) ==
  LET n == IF Len(d) < PrefixTokens THEN Len(d) ELSE PrefixTokens
  IN  { Keys(d)[k] : k \in 1..n }
        \cup { SubSeq(Keys(d)[1], 1, 3), SubSeq(Keys(d)[n], 1, 3) }
        \cup { << 15, 15, 15 >> }

\* The line of prefixes is read until it holds num prefixes of 3 characters
\* or more; then "tokens = list(deck.keys())" and "picks = []".  The prefixes
\* of the line are drawn one by one, when the for loop reads them.
APrompt ==
  /\ prog = "anthro" /\ pc = "prompt"
  /\ \E entered \in 0..6, short \in BOOLEAN :
       IF entered # result.num \/ short
       THEN UNCHANGED << pc, tokens, picks, choices >>
       ELSE /\ pc' = "resolve"
            /\ tokens' = Keys(deck)
            /\ picks' = << >>
            /\ choices' = << >>
  /\ UNCHANGED << env, now, prog, args, result, calls, prev, master_key, order, deck,
                  loop_i, pos, totem, retries >>

\* AResolve with "continue" in place of the two sys.exit(1)
AResolveContinues ==
  /\ prog = "anthro" /\ pc = "resolve"
  /\ Len(picks) < result.num
  /\ \E pref \in Prefixes(deck) :
       LET matches == Matches(tokens, pref)
       IN  /\ choices' = Append(choices, pref)
           /\ IF Len(matches) = 1
              THEN /\ picks' = Append(picks, Lookup(deck, matches[1]))
                   /\ tokens' = Remove(tokens, matches[1])
              ELSE UNCHANGED << picks, tokens >>
  /\ UNCHANGED << env, now, prog, pc, args, result, calls, prev, master_key, order, deck,
                  loop_i, pos, totem, retries >>

\* One pass of "for pref in choices".
AResolve ==
  /\ prog = "anthro" /\ pc = "resolve"
  /\ Len(picks) < result.num
  /\ \E pref \in Prefixes(deck) :
       LET matches == Matches(tokens, pref)
       IN  /\ choices' = Append(choices, pref)
           /\ IF Len(matches) = 1
              THEN /\ picks' = Append(picks, Lookup(deck, matches[1]))
                   /\ tokens' = Remove(tokens, matches[1])
                   /\ UNCHANGED << pc, result >>
              ELSE /\ result' = [result EXCEPT !.outcome =
                                   IF Len(matches) = 0 THEN "NoMatch" ELSE "Ambiguous"]
                   /\ pc' = "done"
                   /\ UNCHANGED << picks, tokens >>
  /\ UNCHANGED << env, now, prog, args, calls, prev, master_key, order, deck, loop_i,
                  pos, totem, retries >>

\* show_totems(picks, query)
AShow ==
  /\ prog = "anthro" /\ pc = "resolve"
  /\ Len(picks) = result.num
  /\ result' = [result EXCEPT !.outcome = "ok", !.revealed = picks]
  /\ pc' = "done"
  /\ UNCHANGED << anthro, env, now, prog, args, calls, prev >>

\* The same operation again, with the same arguments, in a later run.
Rerun ==
  /\ pc = "done"
  /\ prev = NoRun
  /\ prev' = [prog |-> prog, args |-> args, result |-> result, deck |-> deck]
  /\ \/ /\ prog = "cast"
        /\ LET r == cast(RUNE_DATABASE, args.query, now, args.count, pbkdf2_available)
           IN  /\ result' = Reading(r)
               /\ calls' = [pbkdf2 |-> r.pbkdf2, fast |-> r.fast]
        /\ RUNE_DATABASE' = cast_pool(RUNE_DATABASE, args.query, now, args.count,
                                      pbkdf2_available)
        /\ UNCHANGED << anthro, sephirot_names, paths, pbkdf2_available, save_file, now,
                        prog, pc, args >>
     \/ /\ prog = "sephirot"
        /\ result' = [outcome |-> "ok",
                      value |-> get_sephirot_reading(sephirot_names, args.query,
                                                     args.count, pbkdf2_available)]
        /\ sephirot_names' = sephirot_pool(sephirot_names, args.query, args.count,
                                           pbkdf2_available)
        /\ UNCHANGED << anthro, RUNE_DATABASE, paths, pbkdf2_available, save_file, now,
                        prog, pc, args, calls >>
     \/ /\ prog = "paths"
        /\ LET r == get_paths_reading(paths, args.query, args.count, pbkdf2_available)
           IN  result' = [outcome |-> r.outcome, value |-> r.chosen]
        /\ paths' = paths_pool(paths, args.query, args.count, pbkdf2_available)
        /\ UNCHANGED << anthro, RUNE_DATABASE, sephirot_names, pbkdf2_available, save_file,
                        now, prog, pc, args, calls >>
     \/ /\ prog = "kabbalah"
        /\ result.outcome # "UsageError"
        /\ pc' = "sephirot"
        /\ result' = KRunning
        /\ calls' = NoCalls
        /\ UNCHANGED << anthro, env, now, prog, args >>
     \/ /\ prog = "build_pool"
        /\ pc' = "build"
        /\ calls' = NoCalls
        /\ AnthroReset
        /\ UNCHANGED << env, now, prog, args, result >>
     \/ /\ prog = "runes"
        /\ result.outcome # "UsageError"
        /\ pc' = "cast"
        /\ result' = RRunning
        /\ calls' = NoCalls
        /\ args' = [args EXCEPT !.before = save_file]
        /\ UNCHANGED << anthro, env, now, prog >>

\* The caller of a reading function goes on to its next call, in the same
\* process: the pools are those the calls before have left.
NextCall ==
  /\ pc = "done"
  /\ prog \in { "cast", "sephirot", "paths" }
  /\ prog' = "caller"
  /\ pc' = "idle"
  /\ args' = NoArgs
  /\ result' = [outcome |-> "none"]
  /\ calls' = NoCalls
  /\ prev' = NoRun
  /\ AnthroReset
  /\ UNCHANGED << env, now >>

InitEnv(available, files) ==
  /\ RUNE_DATABASE = RuneTable
  /\ sephirot_names = SephirotTable
  /\ paths = PathTable
  /\ pbkdf2_available \in available
  /\ save_file \in files
  /\ now = 0
  /\ prog = "none"
  /\ pc = "idle"
  /\ args = NoArgs
  /\ result = [outcome |-> "none"]
  /\ calls = NoCalls
  /\ prev = NoRun
  /\ master_key = << >>
  /\ order = << >>
  /\ deck = << >>
  /\ loop_i = 0
  /\ pos = 0
  /\ totem = NoTotem
  /\ retries = 0
  /\ choices = << >>
  /\ tokens = << >>
  /\ picks = << >>

\* The standard interpreter: hashlib.pbkdf2_hmac is there.
Init == InitEnv({TRUE}, {<< >>})

\* The standard interpreter, and a save file that may exist already.
InitFiles == InitEnv({TRUE}, InitialFiles)

\* Any interpreter: hashlib.pbkdf2_hmac may raise.
InitAnyEnv == InitEnv(BOOLEAN, {<< >>})

Next ==
  \/ CastCall
  \/ SephirotCall
  \/ PathsCall
  \/ RStart
  \/ RCast
  \/ RInterrupt
  \/ ROpen
  \/ RWrite
  \/ KStart
  \/ KSephirot
  \/ KPathCount
  \/ KPaths
  \/ AStart
  \/ BuildPoolCall
  \/ AQuery
  \/ ANumber
  \/ ABuildBegin
  \/ AFor
  \/ ARetry
  \/ AInsert
  \/ APrompt
  \/ AResolve
  \/ AShow
  \/ Rerun
  \/ NextCall

Spec == Init /\ [][Next]_vars

\* All three programs in an interpreter that may lack hashlib.pbkdf2_hmac.
SpecAnyEnv == InitAnyEnv /\ [][Next]_vars

\* RUNES.py alone
NextRunes ==
  \/ CastCall
  \/ RStart
  \/ RCast
  \/ RInterrupt
  \/ ROpen
  \/ RWrite
  \/ Rerun
  \/ NextCall

SpecRunes == Init /\ [][NextRunes]_vars

\* RUNES.py alone, with a save file that may exist already
SpecSave == InitFiles /\ [][NextRunes]_vars

\* KABBALAH3.py alone
NextKabbalah ==
  \/ SephirotCall
  \/ PathsCall
  \/ KStart
  \/ KSephirot
  \/ KPathCount
  \/ KPaths
  \/ Rerun
  \/ NextCall

SpecKabbalah == Init /\ [][NextKabbalah]_vars

\* The three reading functions that draw from the module-level pools, called
\* one after the other
NextCalls ==
  \/ CastCall
  \/ SephirotCall
  \/ PathsCall
  \/ Rerun
  \/ NextCall

SpecCalls == Init /\ [][NextCalls]_vars

\* ANTHRO_ORACLE.py alone
NextAnthro ==
  \/ AStart
  \/ BuildPoolCall
  \/ AQuery
  \/ ANumber
  \/ ABuildBegin
  \/ AFor
  \/ ARetry
  \/ AInsert
  \/ APrompt
  \/ AResolve
  \/ AShow
  \/ Rerun

SpecAnthro == Init /\ [][NextAnthro]_vars

\* ================================================================== claims
Distinct(s) == \A i, j \in 1..Len(s) : i # j => s[i] # s[j]

Returned(p) == prog = p /\ pc = "done" /\ result.outcome = "ok"

RuneInfos == [ k \in 1..Len(result.drawn_runes) |-> result.drawn_runes[k].rune_info ]

\* The lowest bit of the first byte of the orientation hash of draw k (1-based)
\* of the reading in result.
OrientBit(k) ==
  secure_hash(Sha256Code(result.query, result.timestamp),
              SaltCode("rune-orient",
                       NameIndex(RuneTable, result.drawn_runes[k].rune_info.name),
                       k - 1))[1] % 2

\* C1 (no-replacement): the entries returned by RuneCaster.cast, by
\* get_paths_reading and by get_sephirot_reading with count < 10 are pairwise
\* distinct and each is an entry of the original pool.
C1_NoReplacement ==
  /\ Returned("cast") =>
       /\ Distinct(RuneInfos)
       /\ Range(RuneInfos) \subseteq Range(RuneTable)
       /\ Cardinality(Range(RuneInfos)) = args.count
  /\ Returned("paths") =>
       /\ Distinct(result.value)
       /\ Range(result.value) \subseteq Range(PathTable)
       /\ args.count >= 0 => Cardinality(Range(result.value)) = args.count
  /\ (Returned("sephirot") /\ args.count < 10) =>
       /\ Distinct([ k \in 1..Len(result.value) |-> result.value[k][1] ])
       /\ \A k \in 1..Len(result.value) : result.value[k][1] \in Range(SephirotTable)
       /\ args.count >= 0 => Len(result.value) = args.count

\* A reading of all 22 paths was returned and is not in pool order.
C1_Witness ==
  /\ Returned("paths")
  /\ Len(result.value) = Len(PathTable)
  /\ result.value # PathTable

\* C2 (range validity of cast): cast fails with the invalid-input error when
\* num_runes < 1 or num_runes > 24, and for 1 <= num_runes <= 24 it returns
\* a reading with exactly num_runes draws.
C2_CastRange ==
  (prog = "cast" /\ pc = "done") =>
    /\ (args.count < 1 \/ args.count > 24) =>
         (result.outcome = "ValueError" /\ result.drawn_runes = << >>)
    /\ (1 <= args.count /\ args.count <= 24) =>
         (result.outcome = "ok" /\ Len(result.drawn_runes) = args.count)

\* cast returned all 24 runes for num_runes = 24.
C2_Witness ==
  /\ Returned("cast")
  /\ args.count = Len(RuneTable)
  /\ Len(result.drawn_runes) = Len(RuneTable)

\* C3 (attribute suppression): a drawn rune that is not reversible has
\* is_reversed = FALSE whatever the lowest bit of its orientation hash;
\* is_reversed is TRUE only for a reversible rune whose orientation hash has
\* lowest bit 1 in its first byte.
C3_Suppression ==
  Returned("cast") =>
    \A k \in 1..Len(result.drawn_runes) :
      LET d == result.drawn_runes[k]
      IN  /\ ~d.rune_info.reversible => ~d.is_reversed
          /\ d.is_reversed => (d.rune_info.reversible /\ OrientBit(k) = 1)

\* A rune that is not reversible was drawn with orientation bit 1, and a
\* reversible one was drawn reversed.
C3_Witness ==
  /\ Returned("cast")
  /\ \E k \in 1..Len(result.drawn_runes) :
       /\ ~result.drawn_runes[k].rune_info.reversible
       /\ OrientBit(k) = 1
       /\ ~result.drawn_runes[k].is_reversed
  /\ \E k \in 1..Len(result.drawn_runes) : result.drawn_runes[k].is_reversed

RECURSIVE Without(_, _)
Without(toks, gone) ==
  IF toks = << >> THEN << >>
  ELSE (IF Head(toks) \in gone THEN << >> ELSE << Head(toks) >>)
       \o Without(Tail(toks), gone)

Remaining(n) == Without(Keys(deck), { picks[j].token : j \in 1..n })

Resolving == prog = "anthro" /\ pc \in { "resolve", "done" } /\ choices # << >>

\* C5 as claimed: at every resolution step the prefix is resolved if and only
\* if exactly one token of the displayed pool starts with it.
C5_DisplayedPool ==
  Resolving =>
    \A k \in 1..Len(choices) :
      (k <= Len(picks)) <=> (Len(Matches(Keys(deck), choices[k])) = 1)

\* C5 as amended: at every resolution step the prefix is resolved if and only
\* if exactly one of the displayed tokens not picked at an earlier step
\* starts with it, and it is resolved to that token.
C5_RemainingTokens ==
  Resolving =>
    \A k \in 1..Len(choices) :
      /\ Len(choices[k]) >= 3
      /\ (k <= Len(picks)) <=> (Len(Matches(Remaining(k - 1), choices[k])) = 1)
      /\ (k <= Len(picks)) => picks[k].token = Matches(Remaining(k - 1), choices[k])[1]

\* A prefix that two displayed tokens start with was resolved, after one of
\* the two had been picked.
C5_Witness ==
  /\ Resolving
  /\ \E k \in 2..Len(picks) : Len(Matches(Keys(deck), choices[k])) = 2

\* C6 as claimed: the while loop of build_pool makes at most pool_size + Slack
\* passes for one position (or fails with a generation error, which the code
\* does not have).
C6_BoundedRetries ==
  (prog \in { "anthro", "build_pool" }) => retries <= args.size + Slack

\* C7 as claimed: in a full reading the states are two-valued.
C7_BinaryState ==
  (Returned("sephirot") /\ args.count = 10) =>
    Cardinality({ result.value[k][2] : k \in 1..Len(result.value) }) <= 2

\* C7 as amended: get_sephirot_reading(question, 10) returns the 10 sephirot
\* once each in pool order, each with one of the three states, the state
\* derived from the entry's own name and index.
C7_FullReading ==
  (Returned("sephirot") /\ args.count = 10) =>
    /\ Len(result.value) = 10
    /\ \A k \in 1..Len(result.value) :
         /\ result.value[k][1] = SephirotTable[k]
         /\ result.value[k][2] \in Range(states)
         /\ result.value[k][2] =
              SephirahState(args.query, SephirotTable[k], k - 1, pbkdf2_available)

\* A full reading in which all three states occur.
C7_Witness ==
  /\ Returned("sephirot") /\ args.count = 10
  /\ { result.value[k][2] : k \in 1..Len(result.value) } = Range(states)

\* C8 as claimed: a run that ends with an invalid-input failure has made no
\* hash call.
C8_ValidationFirst ==
  (pc = "done" /\ result.outcome \in { "InvalidInput", "ValueError", "UsageError" }) =>
    (calls.pbkdf2 = 0 /\ calls.fast = 0)

\* C9 as claimed: with pbkdf2_hmac unavailable, a run for a non-empty query
\* and valid arguments still ends with its reading; the unavailability is
\* not surfaced as a failure.
C9_Fallback ==
  (~pbkdf2_available /\ pc = "done" /\ args.query # 0) =>
    /\ result.outcome # "DerivationError"
    /\ (prog = "cast" /\ ValidCount(args.count, Len(RuneTable))) =>
         (result.outcome = "ok" /\ Len(result.drawn_runes) = args.count)

\* C10 (no partial reveal): a prefix that matches no token or several ends
\* the reading with a failure and nothing revealed, whatever was resolved
\* before; totems are revealed only when every prefix was resolved.
C10_NoPartialReveal ==
  prog = "anthro" =>
    /\ Len(choices) > Len(picks) =>
         (pc = "done" /\ result.outcome \in { "NoMatch", "Ambiguous" })
    /\ result.outcome \in { "NoMatch", "Ambiguous" } =>
         (pc = "done" /\ result.revealed = << >>)
    /\ result.revealed # << >> =>
         (result.outcome = "ok" /\ result.revealed = picks
          /\ Len(picks) = result.num /\ Len(choices) = result.num)

\* A reading was aborted after two prefixes had been resolved.
C10_Witness ==
  /\ prog = "anthro" /\ pc = "done"
  /\ result.outcome \in { "NoMatch", "Ambiguous" }
  /\ Len(picks) >= 2
  /\ result.revealed = << >>

\* The lines of a file's contents, the text after the last newline included.
RECURSIVE LinesFrom(_, _)
LinesFrom(content, line) ==
  IF content = << >> THEN (IF line = << >> THEN << >> ELSE << line >>)
  ELSE IF Head(content) = NL THEN << line >> \o LinesFrom(Tail(content), << >>)
  ELSE LinesFrom(Tail(content), Append(line, Head(content)))

Lines(content) == LinesFrom(content, << >>)

Saved == prog = "runes" /\ pc = "done" /\ result.outcome = "ok" /\ args.save # "none"

\* C11 as claimed: a save to a path whose suffix is .jsonl leaves the lines
\* of the file followed by the record as one more line; a save to a path
\* with any other suffix leaves the file holding the one reading saved.
C11_SaveAsClaimed ==
  Saved =>
    IF args.save = ".jsonl"
    THEN Lines(save_file) = Lines(args.before) \o << << dumps(asdict(result)) >> >>
    ELSE save_file = << dump(asdict(result)) >>

\* C11 as amended: a save to a path whose suffix is .jsonl in any letter
\* case appends the record and a newline to the contents of the file, which
\* it leaves unchanged; when these were empty or ended with a newline the
\* file holds its lines followed by the record as one line, and after two
\* saves by the two records in save order.  A save to a path with any other
\* suffix leaves the file holding the one reading saved.
C11_Save ==
  Saved =>
    LET record == dumps(asdict(result))
        before == args.before
    IN  IF Lower(args.save) = ".jsonl"
        THEN /\ save_file = before \o << record, NL >>
             /\ (before = << >> \/ before[Len(before)] = NL) =>
                  Lines(save_file) = Lines(before) \o << << record >> >>
             /\ (prev.prog = "runes" /\ prev.result.outcome = "ok") =>
                  save_file = prev.args.before
                                \o << dumps(asdict(prev.result)), NL, record, NL >>
        ELSE save_file = << dump(asdict(result)) >>

\* Two runs saved to a .jsonl file that held a line before, and the file
\* holds the three lines.
C11_Witness ==
  /\ Saved /\ Lower(args.save) = ".jsonl"
  /\ prev.prog = "runes" /\ prev.result.outcome = "ok"
  /\ prev.args.before = << OldText, NL >>
  /\ Len(Lines(save_file)) = 3

\* C12 as claimed: the save file is as it was when the run began until cast
\* has returned, and at the end of every run that fails (usage error,
\* exception of cast, failed save) or is interrupted.
C12_NoSideEffects ==
  prog = "runes" =>
    /\ pc = "cast" => save_file = args.before
    /\ (pc = "done" /\ result.outcome # "ok") => save_file = args.before

\* C13 as claimed: a run that ends with its reading has made exactly one slow
\* derivation (PBKDF2) for its query, whatever the number of draws.
C13_OneSlowDerivation ==
  (pc = "done" /\ (prog = "build_pool" \/ result.outcome = "ok")) => calls.pbkdf2 = 1

\* C14 (pools are never mutated): after any calls of cast, of
\* get_sephirot_reading and of get_paths_reading RUNE_DATABASE, sephirot_names
\* and paths hold the entries they held at process start, in the same order.
C14_PoolsUnchanged ==
  /\ RUNE_DATABASE = RuneTable
  /\ sephirot_names = SephirotTable
  /\ paths = PathTable

\* After a call of cast, get_sephirot_reading(question, 10) was called twice
\* and the pools are as at process start.
C14_Witness ==
  /\ now > 0
  /\ prog = "sephirot" /\ pc = "done" /\ args.count >= 10 /\ prev.prog = "sephirot"
  /\ pools = << RuneTable, SephirotTable, PathTable >>

\* C15 (no-replacement in ANTHRO): a reading that run_interactive reveals
\* holds exactly the requested number of totems (1, 3 or 5), all of the
\* displayed pool, with pairwise distinct tokens, the k-th being the totem
\* whose token starts with the k-th prefix entered.
C15_AnthroNoReplacement ==
  (prog = "anthro" /\ result.outcome = "ok") =>
    LET revealed == result.revealed
    IN  /\ Len(revealed) = result.num
        /\ result.num \in { 1, 3, 5 }
        /\ args.number_given => result.num = args.number
        /\ Len(choices) = result.num
        /\ Distinct([ k \in 1..Len(revealed) |-> revealed[k].token ])
        /\ \A k \in 1..Len(revealed) :
             /\ revealed[k] \in Range(deck)
             /\ StartsWith(revealed[k].token, choices[k])

\* A reading of five totems was revealed, one of them by a prefix that two
\* displayed tokens start with.
C15_Witness ==
  /\ prog = "anthro" /\ result.outcome = "ok"
  /\ Len(result.revealed) = 5
  /\ \E k \in 1..Len(choices) : Len(Matches(Keys(deck), choices[k])) = 2

\* The pool without the first n draws of the reading in result, in pool order.
Candidates(n) == Without(RuneTable, { RuneInfos[j] : j \in 1..n })

\* H(seed, "rune-select-i") mod n for the reading in result
SelectionIndex(i, n) ==
  IntMod(secure_hash(Sha256Code(result.query, result.timestamp),
                     SaltCode("rune-select", 0, i)), n)

\* C16 (sequential elimination): for i = 0..K-1 the i-th draw returned by
\* cast is the element at index H(seed, "rune-select-i") mod (24 - i) of the
\* pool, in its original order, without the i earlier draws.
C16_SequentialElimination ==
  Returned("cast") =>
    \A i \in 0..(Len(result.drawn_runes) - 1) :
      /\ Len(Candidates(i)) = 24 - i
      /\ RuneInfos[i + 1] = Candidates(i)[SelectionIndex(i, 24 - i) + 1]

\* All 24 runes were drawn; one draw was made at an index past a rune drawn
\* earlier, so that it is not the pool's entry at that index, and the draws
\* are not in pool order.
C16_Witness ==
  /\ Returned("cast") /\ Len(result.drawn_runes) = 24
  /\ RuneInfos # RuneTable
  /\ \E i \in 1..23 : RuneInfos[i + 1] # RuneTable[SelectionIndex(i, 24 - i) + 1]

\* C17 as claimed: get_paths_reading (N = 22), get_sephirot_reading (N = 10)
\* and the --paths check of main return a result only for a draw count K with
\* 1 <= K <= N; for any other K they fail.
C17_DrawCountRange ==
  /\ (prog = "paths" /\ pc = "done" /\ ~(1 <= args.count /\ args.count <= NUM_PATHS)) =>
       result.outcome # "ok"
  /\ (prog = "sephirot" /\ pc = "done"
        /\ ~(1 <= args.count /\ args.count <= Len(SephirotTable))) =>
       result.outcome # "ok"
  /\ (prog = "kabbalah" /\ pc \in { "paths", "done" } /\ args.p_given
        /\ ~(1 <= args.p /\ args.p <= NUM_PATHS)) =>
       result.outcome = "InvalidInput"

Built ==
  \/ prog = "build_pool" /\ pc = "done"
  \/ prog = "anthro" /\ (pc \in { "prompt", "resolve" }
                          \/ result.outcome \in { "ok", "NoMatch", "Ambiguous" })

\* C18 (deck invariant of build_pool): after every pass of the for loop the
\* deck holds one totem more, i + 1 after pass i; when build_pool has
\* returned it holds pool_size * (2 if reversals else 1) totems; its tokens
\* are pairwise distinct and each totem's token is the first 8 hex digits of
\* its digest.
C18_DeckInvariant ==
  (prog \in { "anthro", "build_pool" }) =>
    /\ pc \in { "for", "while" } => Len(deck) = loop_i
    /\ Built => Len(deck) = args.size * (IF args.reversals THEN 2 ELSE 1)
    /\ Distinct(Keys(deck))
    /\ \A k \in 1..Len(deck) :
         /\ Len(deck[k].token) = 8
         /\ deck[k].token = SubSeq(deck[k].digest, 1, 8)

\* build_pool returned a deck of 12 totems, one of which is not the totem of
\* its shuffled position: a collision had moved it.
C18_Witness ==
  /\ prog = "build_pool" /\ pc = "done"
  /\ Len(deck) = 12
  /\ \E k \in 1..Len(deck) : deck[k] # build_totem(master_key, order[k], args.reversals)

\* The first K draws of the reading of K + 1 draws in result are the reading
\* of K draws for the same seed.
CastPrefix ==
  SubSeq(result.drawn_runes, 1, args.count - 1)
    = cast(RuneTable, args.query, result.timestamp, args.count - 1, TRUE).drawn_runes

PathsPrefix ==
  SubSeq(result.value, 1, args.count - 1)
    = get_paths_reading(PathTable, args.query, args.count - 1, pbkdf2_available).chosen

SephirotPrefix ==
  SubSeq(result.value, 1, args.count - 1)
    = get_sephirot_reading(SephirotTable, args.query, args.count - 1, pbkdf2_available)

\* C19 as claimed: prefix stability for cast (1 <= K < 24), for
\* get_paths_reading (0 <= K < 22) and for get_sephirot_reading (1 <= K < 10).
C19_PrefixStabilityAsClaimed ==
  /\ (Returned("cast") /\ 2 <= args.count) => CastPrefix
  /\ (Returned("paths") /\ 1 <= args.count /\ args.count <= 22) => PathsPrefix
  /\ (Returned("sephirot") /\ 2 <= args.count /\ args.count <= 10) => SephirotPrefix

\* C19 as amended: prefix stability for cast (1 <= K < 24, entries and
\* orientations), for get_paths_reading (0 <= K < 22) and for
\* get_sephirot_reading (names and states) for 1 <= K < 9 only: the reading
\* of 10 is the pool in its own order, not a continuation of the reading of 9.
C19_PrefixStability ==
  /\ (Returned("cast") /\ 2 <= args.count) => CastPrefix
  /\ (Returned("paths") /\ 1 <= args.count /\ args.count <= 22) => PathsPrefix
  /\ (Returned("sephirot") /\ 2 <= args.count /\ args.count <= 9) => SephirotPrefix

\* A reading of 9 sephirot, not in pool order, begins with the reading of 8.
C19_Witness ==
  /\ Returned("sephirot") /\ args.count = 9
  /\ SephirotPrefix
  /\ \E k \in 1..8 : result.value[k][1] # SephirotTable[k]
====
